---- MODULE Spec2Model ----
(***************************************************************************)
(* Model of the QIB -> TranSMART batch converter: QIBconverter.main and    *)
(* the QIB2TBatch library it drives, over repeated runs that share the     *)
(* snapshot file (timestamp_json_log) and the scanner lookup file.         *)
(*                                                                         *)
(* Text is a sequence of atoms.  An atom stands for one character or for   *)
(* a run of characters the program never splits; "\t", "\n", "_", "\\"     *)
(* and " " are the separator characters.  Python's None is the text None.  *)
(***************************************************************************)
EXTENDS Naturals, Sequences, FiniteSets, TLC

VARIABLES
    repo,               \* the XNAT project: subject index -> sequence of experiments
    changes,            \* number of upstream changes made to the project so far
    run,                \* number of runs started so far
    snapshot,           \* config.timestamp_json_log: whether it exists, and the dumped json_dict
    scanner_file,       \* config.scanner_dict_file: whether it exists, and its lines
    pc,                 \* position of the current run in main
    exit_status,        \* process exit status of the current run (NotExited while running)
    out_dir,            \* whether create_dir made this run's output directory
    tag_file,           \* lines written to tags/tags.txt
    data_file,          \* lines written to <STUDY_ID>_clinical.txt
    concept_file,       \* lines written to <STUDY_ID>_columns.txt
    open_files,         \* output file handles the run has opened and not closed
    patient_map,        \* dictionary returned by get_patient_mapping
    scanner_dict,       \* obtain_data's scanner_dict
    tag_dict,           \* keys of obtain_data's tag_dict
    data_header_list,   \* obtain_data's data_header_list
    concept_key_list,   \* obtain_data's concept_key_list
    data_list,          \* obtain_data's data_list
    data_row_dict,      \* row of the subject being traversed
    si,                 \* index of the subject being traversed
    ei,                 \* index of the experiment being traversed
    bi,                 \* index of the next biomarker of the session in retrieve_QIB (0: none open)
    cur,                \* retrieve_QIB's locals: begin_concept_key and metadata
    seen,               \* history: every header key of this run, in the order met
    resolved,           \* history: every scanner resolution over the lookup file's life
    first_output        \* history: clinical and columns files of the first run that wrote them

vars == <<repo, changes, run, snapshot, scanner_file, pc, exit_status, out_dir,
          tag_file, data_file, concept_file, open_files, patient_map, scanner_dict,
          tag_dict, data_header_list, concept_key_list, data_list, data_row_dict, si, ei, bi,
          cur, seen, resolved, first_output>>

----------------------------------------------------------------------------
(* Bounds *)

MaxRuns == 3
MaxChanges == 1

----------------------------------------------------------------------------
(* Text helpers: what the Python string methods do on sequences of atoms *)

None == <<"<None>">>
Missing == <<"<AttributeError>">>
\* exit_status while the run has not ended; <<n>> after exit with status n
NotExited == <<>>

TAB == "\t"
NL == "\n"

\* str(n) for an integer n
PyStrInt(n) == <<ToString(n)>>

RECURSIVE Join(_, _)
\* sep.join(parts)
Join(parts, sep) ==
    IF parts = <<>> THEN <<>>
    ELSE IF Len(parts) = 1 THEN parts[1]
    ELSE parts[1] \o <<sep>> \o Join(Tail(parts), sep)

RECURSIVE SplitAcc(_, _, _, _)
SplitAcc(s, sep, piece, out) ==
    IF s = <<>> THEN Append(out, piece)
    ELSE IF Head(s) = sep THEN SplitAcc(Tail(s), sep, <<>>, Append(out, piece))
    ELSE SplitAcc(Tail(s), sep, Append(piece, Head(s)), out)

\* s.split(sep)
Split(s, sep) == SplitAcc(s, sep, <<>>, <<>>)

\* s.replace(a, b) for single characters a and b
Replace(s, a, b) == [i \in 1..Len(s) |-> IF s[i] = a THEN b ELSE s[i]]

\* s.replace(a, '')
Remove(s, a) == SelectSeq(s, LAMBDA c : c # a)

\* s.lower(), on the atoms that have upper-case letters
Lower(s) == [i \in 1..Len(s) |-> IF s[i] = "QIB" THEN "qib" ELSE s[i]]

\* Python truthiness of an attribute value
Truthy(v) == v # None /\ v # <<>>

\* x in list
InSeq(x, s) == \E i \in 1..Len(s) : s[i] = x

\* list.index(x): the first position (0-based)
IndexOf(x, s) == (CHOOSE i \in 1..Len(s) : s[i] = x /\ \A j \in 1..(i-1) : s[j] # x) - 1

----------------------------------------------------------------------------
(* Configuration (ConfigStorage) *)

project_name == <<"P">>
tag_list == << <<"tag", "_", "a">>, <<"tag", "_", "b">> >>
study_id == <<"STUDY">>

\* config.patient_file: one line per mapped subject
patient_file == << <<"S1", TAB, "PSEUDO1", NL>> >>

----------------------------------------------------------------------------
(* The repository fixture *)

Subjects == << <<"S1">>, <<"S2">> >>

Biomarker(id, value, oname, oiri) ==
    [id |-> id, value |-> value, ontology_name |-> oname, ontology_iri |-> oiri]

BaseSession(acc, lat, tp) ==
    [accession_identifier |-> acc, laterality |-> lat, timepoint |-> tp]

Volume == [category_name |-> <<"Volume">>,
           biomarkers |-> << Biomarker(<<"V1">>, <<"12.3">>, <<"vol">>, <<"iri:vol">>) >>]
\* the same category and biomarker id as Volume, with other content
VolumeAgain == [category_name |-> <<"Volume">>,
                biomarkers |-> << Biomarker(<<"V1">>, <<"4.5">>, <<"vol-b">>, <<"iri:vol-b">>) >>]
Shape == [category_name |-> <<"Shape">>,
          biomarkers |-> << Biomarker(<<"V1">>, <<"0.5">>, <<"shp">>, <<"iri:shp">>),
                            Biomarker(<<"V2">>, <<"7">>, <<"len">>, <<"iri:len">>) >>]

\* The experiments the project can hold, each under its subject (an index of
\* Subjects).  ts is processing_end_date_time;
\* attrs gives getattr(session, tag) for each configured tag; scanner holds
\* the scanner/manufacturer and scanner/model fields of the experiment named
\* by the label without its first token.
Pool == <<
    [subject |-> 1, label |-> <<"qib", "_", "e7">>,
     project |-> <<"P">>, ts |-> 1,
     analysis_tool |-> <<"ToolX">>, analysis_tool_version |-> <<"1.0">>,
     attrs |-> << <<"v1">>, Missing >>,
     base_sessions |-> << BaseSession(<<"E7">>, <<"R">>, <<"T3">>) >>,
     scanner |-> [manufacturer |-> <<"A", "B">>, model |-> <<"C">>],
     biomarker_categories |-> << Volume >>],
    [subject |-> 1, label |-> <<"qib", "_", "e8", "_", "x", "_", "R", "_", "T4">>,
     project |-> <<"P">>, ts |-> 1,
     analysis_tool |-> <<"ToolX">>, analysis_tool_version |-> <<"1.0">>,
     attrs |-> << <<"v1">>, Missing >>,
     base_sessions |-> << >>,
     scanner |-> [manufacturer |-> <<"A", "B">>, model |-> <<"C">>],
     biomarker_categories |-> << Volume >>],
    [subject |-> 1, label |-> <<"QIB", "_", "e1", "_", "x", "_", "L", "_", "T1">>,
     project |-> <<"P">>, ts |-> 1,
     analysis_tool |-> <<"ToolX">>, analysis_tool_version |-> <<"1.0">>,
     attrs |-> << <<"v1">>, Missing >>,
     base_sessions |-> << BaseSession(<<"E1">>, None, None) >>,
     scanner |-> [manufacturer |-> <<"A", "B">>, model |-> <<"C">>],
     biomarker_categories |-> << Volume >>],
    [subject |-> 2, label |-> <<"qib", "_", "e2", "_", "x", "_", "L", "_", "T1">>,
     project |-> <<"P">>, ts |-> 1,
     analysis_tool |-> <<"ToolX">>, analysis_tool_version |-> <<"1.0">>,
     attrs |-> << <<"v2">>, <<"w">> >>,
     base_sessions |-> << BaseSession(<<"E2">>, None, None), BaseSession(<<"E2">>, None, None) >>,
     scanner |-> [manufacturer |-> <<"A", "B">>, model |-> <<"C">>],
     biomarker_categories |-> << VolumeAgain >>],
    [subject |-> 2, label |-> <<"qib", "_", "e3", "_", "x", "_", "R", "_", "T2">>,
     project |-> <<"P">>, ts |-> 1,
     analysis_tool |-> None, analysis_tool_version |-> <<"2.0">>,
     attrs |-> << <<>>, <<"w">> >>,
     base_sessions |-> << BaseSession(<<"E3">>, <<"L">>, None) >>,
     scanner |-> [manufacturer |-> <<"A">>, model |-> <<"B", "C">>],
     biomarker_categories |-> << Volume, Shape >>],
    [subject |-> 1, label |-> <<"mr", "_", "e4", "_", "x", "_", "L", "_", "T1">>,
     project |-> <<"P">>, ts |-> 1,
     analysis_tool |-> None, analysis_tool_version |-> None,
     attrs |-> << Missing, Missing >>,
     base_sessions |-> << >>,
     scanner |-> [manufacturer |-> None, model |-> None],
     biomarker_categories |-> << >>],
    [subject |-> 2, label |-> <<"qib", "_", "e5", "_", "x", "_", "L", "_", "T1">>,
     project |-> <<"Q">>, ts |-> 1,
     analysis_tool |-> <<"ToolX">>, analysis_tool_version |-> None,
     attrs |-> << <<"v1">>, <<"w">> >>,
     base_sessions |-> << BaseSession(<<"E5">>, None, None) >>,
     scanner |-> [manufacturer |-> <<"A">>, model |-> <<"B", "C">>],
     biomarker_categories |-> << Volume >>],
    [subject |-> 1, label |-> <<"qib", "_", "e6", "_", "x", "_", "R", "_", "T1">>,
     project |-> <<"P">>, ts |-> 1,
     analysis_tool |-> <<"ToolX">>, analysis_tool_version |-> None,
     attrs |-> << <<"v1">>, <<>> >>,
     base_sessions |-> << BaseSession(<<"E6">>, None, <<"T9">>) >>,
     scanner |-> [manufacturer |-> None, model |-> None],
     biomarker_categories |-> << Shape >>]
>>

SubjectIds == 1..Len(Subjects)
PoolIds == 1..Len(Pool)

RECURSIVE Placed(_, _, _)
\* the experiments of subject s among the present ones, in Pool order
Placed(present, s, k) ==
    IF k > Len(Pool) THEN <<>>
    ELSE (IF k \in present /\ Pool[k].subject = s THEN <<Pool[k]>> ELSE <<>>)
         \o Placed(present, s, k + 1)

\* all labels the project holds
RepoLabels(r) == UNION {{r[s][e].label : e \in 1..Len(r[s])} : s \in SubjectIds}

----------------------------------------------------------------------------
(* Dictionaries *)

EmptyDict == <<>>

\* d[k] = v
Put(d, k, v) == [x \in (DOMAIN d) \cup {k} |-> IF x = k THEN v ELSE d[x]]

\* a scanner_dict value: the int assigned in this run, or the str read from the file
IntVal(n) == [kind |-> "int", n |-> n, s |-> <<>>]
StrVal(s) == [kind |-> "str", n |-> 0, s |-> s]
PyStr(v) == IF v.kind = "int" THEN PyStrInt(v.n) ELSE v.s
TruthyVal(v) == IF v.kind = "int" THEN v.n # 0 ELSE v.s # <<>>

----------------------------------------------------------------------------
(* check_if_updated *)

\* the qualifying-session test of check_if_updated and obtain_data
Qualifies(experiment) ==
    InSeq("qib", Lower(experiment.label)) /\ experiment.project = project_name

\* datetime.isoformat() of a processing_end_date_time
IsoFormat(ts) == PyStrInt(ts)

\* json_dict['session_list'] as the traversal builds it
SessionList(r) ==
    LET labels == UNION {{r[s][e].label : e \in {x \in 1..Len(r[s]) : Qualifies(r[s][x])}} :
                         s \in SubjectIds}
        tsOf(l) == LET s == CHOOSE s \in SubjectIds : \E e \in 1..Len(r[s]) : r[s][e].label = l
                       e == CHOOSE e \in 1..Len(r[s]) : r[s][e].label = l
                   IN r[s][e].ts
    IN [l \in labels |-> IsoFormat(tsOf(l))]

\* the comparison loop over the loaded snapshot: raises KeyError on a label the
\* snapshot lacks
KeyErrorInCompare(data, session_list) ==
    \E l \in DOMAIN session_list : l \notin DOMAIN data.session_list

UpdatedByCompare(data, session_list) ==
    \E l \in DOMAIN session_list : data.session_list[l] # session_list[l]

\* a check that dumps the snapshot only when it found a change
check_if_updated_DumpOnChange(r, snap, now) ==
    LET json_dict == [exists |-> TRUE, last_updated |-> now, session_list |-> SessionList(r)]
        raised == snap.exists /\ KeyErrorInCompare(snap, json_dict.session_list)
        updated == snap.exists /\ ~raised /\ UpdatedByCompare(snap, json_dict.session_list)
    IN [raised |-> raised,
        updated |-> updated,
        snapshot |-> IF ~raised /\ updated THEN json_dict ELSE snap]

\* check_if_updated: the value returned, whether it raised, and the snapshot file after
check_if_updated(r, snap, now) ==
    LET json_dict == [exists |-> TRUE, last_updated |-> now, session_list |-> SessionList(r)]
        raised == snap.exists /\ KeyErrorInCompare(snap, json_dict.session_list)
        updated == snap.exists /\ ~raised /\ UpdatedByCompare(snap, json_dict.session_list)
    IN [raised |-> raised,
        updated |-> updated,
        snapshot |-> IF ~raised /\ (updated \/ ~snap.exists) THEN json_dict ELSE snap]

----------------------------------------------------------------------------
(* write_project_metadata *)

\* a prefix that leaves the version out
ToolPrefix_ToolOnly(session) ==
    IF Truthy(session.analysis_tool) THEN session.analysis_tool ELSE <<"Generic Tool">>

\* write_project_metadata, lines 297-304: the tool prefix (begin_concept_key)
ToolPrefix(session) ==
    IF Truthy(session.analysis_tool) /\ Truthy(session.analysis_tool_version)
    THEN session.analysis_tool \o <<" ">> \o session.analysis_tool_version
    ELSE IF Truthy(session.analysis_tool) THEN session.analysis_tool
    ELSE <<"Generic Tool">>

\* the rendered session-level tag line
MetadataLine(concept_key, tag, info_tag, i) ==
    concept_key \o <<TAB>> \o Replace(tag, "_", " ") \o <<TAB>> \o info_tag
                \o <<TAB>> \o PyStrInt(i) \o <<NL>>

\* the key under which write_project_metadata remembers a written tag
MetadataKey(concept_key, tag) == concept_key \o tag

RECURSIVE MetadataLoop(_, _, _, _, _, _)
\* the loop over config.tag_list from position k on, with weight i
MetadataLoop(session, concept_key, k, i, td, written) ==
    IF k > Len(tag_list)
    THEN [concept_key |-> concept_key, tag_dict |-> td, written |-> written]
    ELSE LET tag == tag_list[k]
             info_tag == session.attrs[k]
         IN IF info_tag = Missing \/ ~Truthy(info_tag)
            THEN MetadataLoop(session, concept_key, k + 1, i, td, written)
            ELSE LET line == MetadataLine(concept_key, tag, info_tag, i)
                     key == MetadataKey(concept_key, tag)
                 IN IF key \notin td
                    THEN MetadataLoop(session, concept_key, k + 1, i - 1,
                                      td \cup {key}, Append(written, line))
                    ELSE MetadataLoop(session, concept_key, k + 1, i - 1, td, written)

write_project_metadata(session, td) ==
    MetadataLoop(session, ToolPrefix(session), 1, Len(tag_list), td, <<>>)

----------------------------------------------------------------------------
(* get_session_data *)

NotSpecified == <<"Not specified">>

\* a metadata dictionary keeps insertion order: a sequence of <<key, value>>
MetaGet(metadata, key) ==
    LET i == CHOOSE i \in 1..Len(metadata) : metadata[i][1] = key IN metadata[i][2]

K_laterality == <<"laterality">>
K_timepoint == <<"timepoint">>
K_scanner_model == <<"scanner", " ", "model">>
K_scanner_manufacturer == <<"scanner", " ", "manufacturer">>
K_scanner == <<"scanner">>

\* a lookup that misses the numbers read back from the file (they are strings)
ScannerLookup_IntOnly(sd, scanner_name) ==
    IF scanner_name \in DOMAIN sd /\ sd[scanner_name].kind = "int"
    THEN [hit |-> TRUE, value |-> sd[scanner_name]]
    ELSE [hit |-> FALSE, value |-> IntVal(0)]

\* the in-memory lookup: the stored number when the name is known
ScannerLookup(sd, scanner_name) ==
    IF scanner_name \in DOMAIN sd /\ TruthyVal(sd[scanner_name])
    THEN [hit |-> TRUE, value |-> sd[scanner_name]]
    ELSE [hit |-> FALSE, value |-> IntVal(0)]

\* the name a (manufacturer, model) pair is looked up and stored under
ScannerName(manufacturer, model) == manufacturer \o model

\* returns metadata, the scanner_dict after, and the lines appended to the lookup
\* file; raised: an IndexError of line 422, 423 or 424
get_session_data(label_list, sessions, scan, sd) ==
    IF Len(sessions) = 0 \/ Len(label_list) < 5
    THEN [raised |-> TRUE, metadata |-> <<>>, scanner_dict |-> sd, appended |-> <<>>]
    ELSE
    LET _session == sessions[1]
        laterality == IF _session.laterality # None THEN _session.laterality ELSE label_list[4]
        timepoint == IF _session.timepoint # None THEN _session.timepoint ELSE label_list[5]
        model == IF Truthy(scan.model) THEN scan.model ELSE NotSpecified
        manufacturer == IF Truthy(scan.manufacturer) THEN scan.manufacturer ELSE NotSpecified
        scanner_name == ScannerName(manufacturer, model)
        found == ScannerLookup(sd, scanner_name)
        scanner_number == Cardinality(DOMAIN sd) + 1
        scanner == IF found.hit THEN <<"scanner">> \o PyStr(found.value)
                   ELSE <<"scanner">> \o PyStrInt(scanner_number)
    IN [raised |-> FALSE,
        metadata |-> << <<K_laterality, laterality>>, <<K_timepoint, timepoint>>,
                        <<K_scanner_model, model>>, <<K_scanner_manufacturer, manufacturer>>,
                        <<K_scanner, scanner>> >>,
        scanner_dict |-> IF found.hit THEN sd ELSE Put(sd, scanner_name, IntVal(scanner_number)),
        appended |-> IF found.hit THEN <<>>
                     ELSE << scanner_name \o <<TAB>> \o PyStrInt(scanner_number) \o <<NL>> >>]

RECURSIVE LoadScannerDict(_, _)
\* obtain_data's load of the lookup file, line by line
LoadScannerDict(lines, sd) ==
    IF lines = <<>> THEN sd
    ELSE LET kv == Split(Remove(Head(lines), NL), TAB)
         IN LoadScannerDict(Tail(lines), Put(sd, kv[1], StrVal(kv[2])))

RECURSIVE LoadPatientDict(_, _)
LoadPatientDict(lines, pd) ==
    IF lines = <<>> THEN pd
    ELSE LET line_list == Split(Remove(Head(lines), NL), TAB)
         IN LoadPatientDict(Tail(lines), Put(pd, line_list[1], line_list[2]))

\* get_patient_mapping: the patient file is read when the scanner lookup file exists
get_patient_mapping(sf) ==
    IF sf.exists THEN LoadPatientDict(patient_file, EmptyDict) ELSE EmptyDict

----------------------------------------------------------------------------
(* retrieve_QIB *)

\* "scanner " in x
HasScannerSpace(x) == \E i \in 1..(Len(x) - 1) : x[i] = "scanner" /\ x[i + 1] = " "

\* the rendered scanner-level tag line of metadata entry x
ScannerTagLine(begin_concept_key, metadata, x) ==
    Join(<< begin_concept_key \o <<"\\">> \o MetaGet(metadata, K_scanner), x,
            MetaGet(metadata, x) >>, TAB) \o <<TAB>> \o PyStrInt(1) \o <<NL>>

RECURSIVE ScannerTagLoop(_, _, _, _, _)
\* the loop "for x in metadata" of retrieve_QIB from position k on
ScannerTagLoop(begin_concept_key, metadata, k, td, written) ==
    IF k > Len(metadata) THEN [tag_dict |-> td, written |-> written]
    ELSE LET x == metadata[k][1]
             line == ScannerTagLine(begin_concept_key, metadata, x)
         IN IF HasScannerSpace(x) /\ line \notin td
            THEN ScannerTagLoop(begin_concept_key, metadata, k + 1, td \cup {line},
                                Append(written, line))
            ELSE ScannerTagLoop(begin_concept_key, metadata, k + 1, td, written)

\* the subject value of the row: the pseudonym when the label is mapped
SubjectValue(subject_label, pm) ==
    IF subject_label \in DOMAIN pm THEN pm[subject_label] ELSE subject_label

K_subject == <<"subject">>

\* a test that takes every key for a new one
IsNewHeader_Always(key, header_list, key_list) == TRUE

\* the two-list membership test that guards a header append
IsNewHeader(key, header_list, key_list) == ~InSeq(key, header_list) /\ ~InSeq(key, key_list)

\* data_header_list after 'subject' was met
AddSubjectHeader(header_list) ==
    IF ~InSeq(K_subject, header_list) THEN Append(header_list, K_subject) ELSE header_list

\* an append that forgets the membership test
AddConceptHeader_NoTest(concept_key, header_list, key_list) ==
    Append(header_list, concept_key)

\* data_header_list after a concept key was met
AddConceptHeader(concept_key, header_list, key_list) ==
    IF IsNewHeader(concept_key, header_list, key_list)
    THEN Append(header_list, concept_key) ELSE header_list

RECURSIVE FlattenCategories(_)
\* the (category, biomarker) pairs in the order of the two nested loops
FlattenCategories(categories) ==
    IF categories = <<>> THEN <<>>
    ELSE [j \in 1..Len(Head(categories).biomarkers) |->
             [category_name |-> Head(categories).category_name,
              biomarker |-> Head(categories).biomarkers[j]]]
         \o FlattenCategories(Tail(categories))

\* concept_key of a biomarker
ConceptKey(begin_concept_key, metadata, category_name, biomarker_id) ==
    Join(<< begin_concept_key, MetaGet(metadata, K_scanner), category_name,
            MetaGet(metadata, K_laterality), MetaGet(metadata, K_timepoint),
            biomarker_id >>, "\\")

----------------------------------------------------------------------------
(* write_concept_tags *)

RECURSIVE AccessionLines(_, _)
AccessionLines(concept_key, base_sessions) ==
    IF base_sessions = <<>> THEN <<>>
    ELSE << Join(<<concept_key, <<"accession identifier">>,
                   Head(base_sessions).accession_identifier>>, TAB)
            \o <<TAB>> \o PyStrInt(2) \o <<NL>> >>
         \o AccessionLines(concept_key, Tail(base_sessions))

ConceptTagLines(biomarker, concept_key, session, metadata) ==
    << Join(<<concept_key, <<"Ontology name">>, biomarker.ontology_name>>, TAB)
         \o <<TAB>> \o PyStrInt(1) \o <<NL>>,
       Join(<<concept_key, <<"Ontology IRI">>, biomarker.ontology_iri>>, TAB)
         \o <<TAB>> \o PyStrInt(1) \o <<NL>> >>
    \o AccessionLines(concept_key, session.base_sessions)
    \o [k \in 1..Len(metadata) |->
           Join(<<concept_key, metadata[k][1], metadata[k][2]>>, TAB)
           \o <<TAB>> \o PyStrInt(2) \o <<NL>>]

RECURSIVE ConceptTagLoop(_, _, _, _)
\* the loop "for line in lines"; guard_key is concept_key + x, x being the last
\* key the loop over metadata left behind
ConceptTagLoop(lines, guard_key, td, written) ==
    IF lines = <<>> THEN [tag_dict |-> td, written |-> written]
    ELSE IF guard_key \notin td
         THEN ConceptTagLoop(Tail(lines), guard_key, td \cup {Head(lines)},
                             Append(written, Head(lines)))
         ELSE ConceptTagLoop(Tail(lines), guard_key, td, written)

write_concept_tags(biomarker, concept_key, td, session, metadata) ==
    LET x == metadata[Len(metadata)][1]
    IN ConceptTagLoop(ConceptTagLines(biomarker, concept_key, session, metadata),
                      concept_key \o x, td, <<>>)

----------------------------------------------------------------------------
(* write_data *)

RECURSIVE Concat(_)
\* ''.join(row)
Concat(row) == IF row = <<>> THEN <<>> ELSE Head(row) \o Concat(Tail(row))

\* os.path.basename(data_file.name)
DataFileName == study_id \o <<"_clinical.txt">>

\* a column line that numbers the columns from 0
ColumnLine_ZeroBased(header, index) ==
    IF header = K_subject
    THEN DataFileName \o <<TAB>> \o header \o <<TAB>> \o PyStrInt(index)
         \o <<TAB>> \o <<"SUBJ_ID">> \o <<NL>>
    ELSE LET parts == Split(header, "\\")
         IN DataFileName \o <<TAB>> \o Join(SubSeq(parts, 1, Len(parts) - 1), "\\")
            \o <<TAB>> \o PyStrInt(index) \o <<TAB>> \o parts[Len(parts)] \o <<NL>>

\* the column-definition line of a header at 0-based position index
ColumnLine(header, index) ==
    IF header = K_subject
    THEN DataFileName \o <<TAB>> \o header \o <<TAB>> \o PyStrInt(index + 1)
         \o <<TAB>> \o <<"SUBJ_ID">> \o <<NL>>
    ELSE LET parts == Split(header, "\\")
         IN DataFileName \o <<TAB>> \o Join(SubSeq(parts, 1, Len(parts) - 1), "\\")
            \o <<TAB>> \o PyStrInt(index + 1) \o <<TAB>> \o parts[Len(parts)] \o <<NL>>

\* a row that holds nothing at the position of a header it lacks
RowField_NoPad(line, header) == IF header \in DOMAIN line THEN line[header] \o <<TAB>> ELSE <<>>

\* the field a row puts at a header's position
RowField(line, header) == IF header \in DOMAIN line THEN line[header] \o <<TAB>> ELSE <<TAB>>

\* the rendered data line of one row
RenderRow(line, header_list) ==
    LET row == [i \in 1..Len(header_list) |->
                   IF IndexOf(header_list[i], header_list) + 1 = i
                   THEN RowField(line, header_list[i]) ELSE <<TAB>>]
        n == Len(row)
        closed == [row EXCEPT ![n] = Replace(row[n], TAB, NL)]
    IN Concat(closed)

RECURSIVE ColumnLoop(_, _, _, _)
\* the loop "for header in data_header_list" of one row: column_list and the
\* lines written to the columns file (subject_written is 'subject' in column_list)
ColumnLoop(line, header_list, k, st) ==
    IF k > Len(header_list) THEN st
    ELSE LET header == header_list[k]
         IN IF header \in DOMAIN line /\ ~InSeq(header, st.column_list)
            THEN ColumnLoop(line, header_list, k + 1,
                            [column_list |-> Append(st.column_list, header),
                             written |-> Append(st.written,
                                                ColumnLine(header, IndexOf(header, header_list)))])
            ELSE ColumnLoop(line, header_list, k + 1, st)

RECURSIVE RowLoop(_, _, _, _)
\* the loop "for line in data_list"
RowLoop(rows, header_list, st, data_lines) ==
    IF rows = <<>> THEN [data_lines |-> data_lines, column_lines |-> st.written]
    ELSE RowLoop(Tail(rows), header_list, ColumnLoop(Head(rows), header_list, 1, st),
                 Append(data_lines, RenderRow(Head(rows), header_list)))

\* write_data: the lines written to the clinical file and to the columns file
write_data(rows, header_list) ==
    RowLoop(rows, header_list, [column_list |-> <<>>, written |-> <<>>],
            << Join(header_list, TAB) \o <<NL>> >>)

----------------------------------------------------------------------------
(* The runs *)

NoSnapshot == [exists |-> FALSE, last_updated |-> 0, session_list |-> EmptyDict]
NoScannerFile == [exists |-> FALSE, lines |-> <<>>]
NoLocals == [begin_concept_key |-> <<>>, metadata |-> <<>>]
NoOutput == [written |-> FALSE, clinical |-> <<>>, columns |-> <<>>]

\* the state obtain_data and main start a run with
RunReset ==
    /\ exit_status' = NotExited
    /\ out_dir' = FALSE
    /\ tag_file' = <<>>
    /\ data_file' = <<>>
    /\ concept_file' = <<>>
    /\ open_files' = {}
    /\ patient_map' = EmptyDict
    /\ scanner_dict' = EmptyDict
    /\ tag_dict' = {}
    /\ data_header_list' = <<>>
    /\ concept_key_list' = <<>>
    /\ data_list' = <<>>
    /\ data_row_dict' = EmptyDict
    /\ si' = 0
    /\ ei' = 0
    /\ bi' = 0
    /\ cur' = NoLocals
    /\ seen' = <<>>

Init ==
    /\ repo \in {[s \in SubjectIds |-> Placed(present, s, 1)] : present \in SUBSET PoolIds}
    /\ changes = 0
    /\ run = 0
    /\ snapshot = NoSnapshot
    /\ scanner_file \in {NoScannerFile, [exists |-> TRUE, lines |-> <<>>]}
    /\ pc = "idle"
    /\ exit_status = NotExited
    /\ out_dir = FALSE
    /\ tag_file = <<>>
    /\ data_file = <<>>
    /\ concept_file = <<>>
    /\ open_files = {}
    /\ patient_map = EmptyDict
    /\ scanner_dict = EmptyDict
    /\ tag_dict = {}
    /\ data_header_list = <<>>
    /\ concept_key_list = <<>>
    /\ data_list = <<>>
    /\ data_row_dict = EmptyDict
    /\ si = 0
    /\ ei = 0
    /\ bi = 0
    /\ cur = NoLocals
    /\ seen = <<>>
    /\ resolved = <<>>
    /\ first_output = NoOutput

\* upstream: a session is reprocessed, its processing_end_date_time moves on
RepoTouch ==
    /\ pc = "idle" /\ 0 < run /\ run < MaxRuns /\ changes < MaxChanges
    /\ \E s \in SubjectIds : \E e \in 1..Len(repo[s]) :
          repo' = [repo EXCEPT ![s][e].ts = @ + 1]
    /\ changes' = changes + 1
    /\ UNCHANGED <<run, snapshot, scanner_file, pc, exit_status, out_dir, tag_file,
                   data_file, concept_file, patient_map, scanner_dict, tag_dict,
                   data_header_list, concept_key_list, data_list, data_row_dict, si, ei,
                   bi, cur, seen, resolved, first_output, open_files>>

\* upstream: a new experiment appears under a subject
RepoAdd ==
    /\ pc = "idle" /\ 0 < run /\ run < MaxRuns /\ changes < MaxChanges
    /\ \E k \in PoolIds :
          /\ Pool[k].label \notin RepoLabels(repo)
          /\ repo' = [repo EXCEPT ![Pool[k].subject] = Append(@, Pool[k])]
    /\ changes' = changes + 1
    /\ UNCHANGED <<run, snapshot, scanner_file, pc, exit_status, out_dir, tag_file,
                   data_file, concept_file, patient_map, scanner_dict, tag_dict,
                   data_header_list, concept_key_list, data_list, data_row_dict, si, ei,
                   bi, cur, seen, resolved, first_output, open_files>>

\* main up to make_connection: a new process
StartRun ==
    /\ pc = "idle" /\ run < MaxRuns
    /\ run' = run + 1
    /\ pc' = "check_if_updated"
    /\ RunReset
    /\ UNCHANGED <<repo, changes, snapshot, scanner_file, resolved, first_output>>

\* an uncaught exception ends the process with status 1
Raise == pc' = "idle" /\ exit_status' = <<1>>

\* main: continue_job = check_if_updated(...); if continue_job: sys.exit(9)
CheckIfUpdated ==
    /\ pc = "check_if_updated"
    /\ LET r == check_if_updated(repo, snapshot, run)
       IN /\ snapshot' = r.snapshot
          /\ IF r.raised THEN Raise
             ELSE IF r.updated THEN pc' = "idle" /\ exit_status' = <<9>>
             ELSE pc' = "create_dir" /\ exit_status' = exit_status
    /\ UNCHANGED <<repo, changes, run, scanner_file, out_dir, tag_file, data_file,
                   concept_file, patient_map, scanner_dict, tag_dict, data_header_list,
                   concept_key_list, data_list, data_row_dict, si, ei, bi, cur,
                   seen, resolved, first_output, open_files>>

\* main: create_dir and write_params (the path carries the run's timestamp)
CreateDir ==
    /\ pc = "create_dir"
    /\ out_dir' = TRUE
    /\ pc' = "write_headers"
    /\ UNCHANGED <<repo, changes, run, snapshot, scanner_file, exit_status, tag_file,
                   data_file, concept_file, patient_map, scanner_dict, tag_dict,
                   data_header_list, concept_key_list, data_list, data_row_dict, si, ei,
                   bi, cur, seen, resolved, first_output, open_files>>

WriteHeaders ==
    /\ pc = "write_headers"
    /\ concept_file' = << Join(<< <<"Filename">>, <<"Category Code">>, <<"Column Number">>,
                                  <<"Data Label">> >>, TAB) \o <<NL>> >>
    /\ tag_file' = << Join(<< <<"Concept Path">>, <<"Title">>, <<"Description">>,
                              <<"Weight">> >>, TAB) \o <<NL>> >>
    /\ data_file' = <<>>
    /\ open_files' = {"data_file", "concept_file", "tag_file"}
    /\ pc' = "get_patient_mapping"
    /\ UNCHANGED <<repo, changes, run, snapshot, scanner_file, exit_status, out_dir,
                   patient_map, scanner_dict, tag_dict, data_header_list,
                   concept_key_list, data_list, data_row_dict, si, ei, bi, cur,
                   seen, resolved, first_output>>

GetPatientMapping ==
    /\ pc = "get_patient_mapping"
    /\ patient_map' = get_patient_mapping(scanner_file)
    /\ pc' = "obtain_data"
    /\ UNCHANGED <<repo, changes, run, snapshot, scanner_file, exit_status, out_dir,
                   tag_file, data_file, concept_file, scanner_dict, tag_dict,
                   data_header_list, concept_key_list, data_list, data_row_dict, si, ei,
                   bi, cur, seen, resolved, first_output, open_files>>

\* obtain_data, lines 131-140: the empty lists and the load of the lookup file
ObtainDataBegin ==
    /\ pc = "obtain_data"
    /\ scanner_dict' = IF scanner_file.exists
                       THEN LoadScannerDict(scanner_file.lines, EmptyDict) ELSE EmptyDict
    /\ si' = 1 /\ ei' = 1 /\ bi' = 0
    /\ pc' = "traverse"
    /\ UNCHANGED <<repo, changes, run, snapshot, scanner_file, exit_status, out_dir,
                   tag_file, data_file, concept_file, patient_map, tag_dict,
                   data_header_list, concept_key_list, data_list, data_row_dict, cur,
                   seen, resolved, first_output, open_files>>

InTraversal == pc = "traverse" /\ si <= Len(Subjects)
AtExperiment == InTraversal /\ bi = 0 /\ ei <= Len(repo[si])

\* obtain_data, line 145: an experiment that does not qualify is passed over
SkipExperiment ==
    /\ AtExperiment /\ ~Qualifies(repo[si][ei])
    /\ ei' = ei + 1
    /\ UNCHANGED <<repo, changes, run, snapshot, scanner_file, pc, exit_status, out_dir,
                   tag_file, data_file, concept_file, patient_map, scanner_dict, tag_dict,
                   data_header_list, concept_key_list, data_list, data_row_dict, si, bi,
                   cur, seen, resolved, first_output, open_files>>

\* retrieve_QIB, lines 190-210: session tags, the subject value, the scanner
\* resolution and the scanner tags
RetrieveQIB ==
    /\ AtExperiment /\ Qualifies(repo[si][ei])
    /\ LET session == repo[si][ei]
           m == write_project_metadata(session, tag_dict)
           label_list == Split(session.label, "_")
           g == get_session_data(label_list, session.base_sessions, session.scanner,
                                 scanner_dict)
           t == ScannerTagLoop(m.concept_key, g.metadata, 1, m.tag_dict, <<>>)
           n == Len(FlattenCategories(session.biomarker_categories))
       IN /\ data_row_dict' = Put(data_row_dict, K_subject,
                                  SubjectValue(Subjects[si], patient_map))
          /\ data_header_list' = AddSubjectHeader(data_header_list)
          /\ seen' = Append(seen, K_subject)
          /\ IF g.raised
             THEN /\ Raise
                  /\ tag_file' = tag_file \o m.written
                  /\ tag_dict' = m.tag_dict
                  /\ UNCHANGED <<scanner_dict, scanner_file, cur, bi, ei, resolved>>
             ELSE /\ tag_file' = tag_file \o m.written \o t.written
                  /\ tag_dict' = t.tag_dict
                  /\ scanner_dict' = g.scanner_dict
                  /\ scanner_file' = [exists |-> scanner_file.exists \/ g.appended # <<>>,
                                      lines |-> scanner_file.lines \o g.appended]
                  /\ resolved' = Append(resolved,
                                    [manufacturer |-> MetaGet(g.metadata, K_scanner_manufacturer),
                                     model |-> MetaGet(g.metadata, K_scanner_model),
                                     label |-> MetaGet(g.metadata, K_scanner)])
                  /\ cur' = [begin_concept_key |-> m.concept_key, metadata |-> g.metadata]
                  /\ IF n = 0 THEN bi' = 0 /\ ei' = ei + 1 ELSE bi' = 1 /\ ei' = ei
                  /\ UNCHANGED <<pc, exit_status>>
    /\ UNCHANGED <<repo, changes, run, snapshot, out_dir, data_file, concept_file,
                   patient_map, concept_key_list, data_list, si, first_output, open_files>>

\* retrieve_QIB, lines 212-237: one biomarker of the session
RetrieveBiomarker ==
    /\ InTraversal /\ bi > 0
    /\ LET session == repo[si][ei]
           all == FlattenCategories(session.biomarker_categories)
           b == all[bi]
           concept_key == ConceptKey(cur.begin_concept_key, cur.metadata, b.category_name,
                                     b.biomarker.id)
           fresh == IsNewHeader(concept_key, data_header_list, concept_key_list)
           w == write_concept_tags(b.biomarker, concept_key, tag_dict, session, cur.metadata)
       IN /\ data_row_dict' = Put(data_row_dict, concept_key, b.biomarker.value)
          /\ data_header_list' = AddConceptHeader(concept_key, data_header_list,
                                                  concept_key_list)
          /\ concept_key_list' = IF fresh THEN Append(concept_key_list, concept_key)
                                 ELSE concept_key_list
          /\ tag_dict' = IF fresh THEN w.tag_dict ELSE tag_dict
          /\ tag_file' = IF fresh THEN tag_file \o w.written ELSE tag_file
          /\ seen' = Append(seen, concept_key)
          /\ IF bi = Len(all) THEN bi' = 0 /\ ei' = ei + 1 /\ cur' = NoLocals
             ELSE bi' = bi + 1 /\ ei' = ei /\ cur' = cur
    /\ UNCHANGED <<repo, changes, run, snapshot, scanner_file, pc, exit_status, out_dir,
                   data_file, concept_file, patient_map, scanner_dict, data_list, si,
                   resolved, first_output, open_files>>

\* an end of subject that appends the row whatever it holds
EndSubject_AlwaysAppend ==
    /\ InTraversal /\ bi = 0 /\ ei > Len(repo[si])
    /\ data_list' = Append(data_list, data_row_dict)
    /\ data_row_dict' = EmptyDict
    /\ si' = si + 1
    /\ ei' = 1
    /\ UNCHANGED <<repo, changes, run, snapshot, scanner_file, pc, exit_status, out_dir,
                   tag_file, data_file, concept_file, patient_map, scanner_dict, tag_dict,
                   data_header_list, concept_key_list, bi, cur, seen,
                   resolved, first_output, open_files>>

\* obtain_data, lines 153-154: the subject's row joins data_list when it holds anything
EndSubject ==
    /\ InTraversal /\ bi = 0 /\ ei > Len(repo[si])
    /\ data_list' = IF DOMAIN data_row_dict # {} THEN Append(data_list, data_row_dict)
                    ELSE data_list
    /\ data_row_dict' = EmptyDict
    /\ si' = si + 1
    /\ ei' = 1
    /\ UNCHANGED <<repo, changes, run, snapshot, scanner_file, pc, exit_status, out_dir,
                   tag_file, data_file, concept_file, patient_map, scanner_dict, tag_dict,
                   data_header_list, concept_key_list, bi, cur, seen,
                   resolved, first_output, open_files>>

\* a return that hands main a pair even when there are no rows
ObtainDataReturn_ReturnsPair ==
    /\ pc = "traverse" /\ si > Len(Subjects)
    /\ pc' = "write_data"
    /\ UNCHANGED <<repo, changes, run, snapshot, scanner_file, exit_status, out_dir, tag_file,
                   data_file, concept_file, patient_map, scanner_dict, tag_dict,
                   data_header_list, concept_key_list, data_list, data_row_dict, si, ei,
                   bi, cur, seen, resolved, first_output, open_files>>

\* obtain_data, lines 156-164, and main's unpacking of what it returns: with no
\* rows a single list comes back and the unpacking raises ValueError
ObtainDataReturn ==
    /\ pc = "traverse" /\ si > Len(Subjects)
    /\ IF data_list = <<>> THEN Raise
       ELSE pc' = "write_data" /\ exit_status' = exit_status
    /\ UNCHANGED <<repo, changes, run, snapshot, scanner_file, out_dir, tag_file,
                   data_file, concept_file, patient_map, scanner_dict, tag_dict,
                   data_header_list, concept_key_list, data_list, data_row_dict, si, ei,
                   bi, cur, seen, resolved, first_output, open_files>>

\* the handles left open once write_data has returned: it closes data_file
CloseAfterWrite(handles) == handles \ {"data_file"}

WriteData ==
    /\ pc = "write_data"
    /\ LET w == write_data(data_list, data_header_list)
       IN /\ data_file' = data_file \o w.data_lines
          /\ concept_file' = concept_file \o w.column_lines
          /\ first_output' = IF first_output.written THEN first_output
                             ELSE [written |-> TRUE, clinical |-> data_file',
                                   columns |-> concept_file']
    /\ open_files' = CloseAfterWrite(open_files)
    /\ pc' = "disconnect"
    /\ UNCHANGED <<repo, changes, run, snapshot, scanner_file, exit_status, out_dir,
                   tag_file, patient_map, scanner_dict, tag_dict, data_header_list,
                   concept_key_list, data_list, data_row_dict, si, ei, bi, cur,
                   seen, resolved>>

\* main: connection.disconnect() and the normal end of the process
Finish ==
    /\ pc = "disconnect"
    /\ pc' = "idle"
    /\ exit_status' = <<0>>
    /\ UNCHANGED <<repo, changes, run, snapshot, scanner_file, out_dir, tag_file,
                   data_file, concept_file, patient_map, scanner_dict, tag_dict,
                   data_header_list, concept_key_list, data_list, data_row_dict, si, ei,
                   bi, cur, seen, resolved, first_output, open_files>>

Next ==
    \/ RepoTouch
    \/ RepoAdd
    \/ StartRun
    \/ CheckIfUpdated
    \/ CreateDir
    \/ WriteHeaders
    \/ GetPatientMapping
    \/ ObtainDataBegin
    \/ SkipExperiment
    \/ RetrieveQIB
    \/ RetrieveBiomarker
    \/ EndSubject
    \/ ObtainDataReturn
    \/ WriteData
    \/ Finish

Spec == Init /\ [][Next]_vars

\* the job is started again and again, and a started process reaches the end
\* of its update check
FairSpec == Spec /\ WF_vars(StartRun) /\ WF_vars(CheckIfUpdated)

----------------------------------------------------------------------------
(* Properties *)

\* a qualifying session whose timestamp is not what the snapshot holds for it
Differs(snap, r) ==
    \E l \in DOMAIN SessionList(r) :
        l \notin DOMAIN snap.session_list \/ snap.session_list[l] # SessionList(r)[l]

\* a qualifying session the snapshot holds no entry for
LacksEntry(snap, r) == \E l \in DOMAIN SessionList(r) : l \notin DOMAIN snap.session_list

\* C1: the run leaves through the no-new-data exit (status 9, no output
\* directory) exactly when a snapshot exists and no qualifying session's
\* timestamp differs from it; a run that finds a difference goes on to create
\* the output directory.
C1_NoNewDataExit ==
    [][pc = "check_if_updated" =>
          /\ (exit_status' = <<9>>) <=> (snapshot.exists /\ ~Differs(snapshot, repo))
          /\ (exit_status' = <<9>>) => ~out_dir'
          /\ (snapshot.exists /\ Differs(snapshot, repo)) => pc' = "create_dir"]_vars

\* C2: with a snapshot that lacks an entry for a qualifying session,
\* check_if_updated returns true and does not raise.
C2_AbsentSessionIsChange ==
    (pc = "check_if_updated" /\ snapshot.exists /\ LacksEntry(snapshot, repo)) =>
        LET r == check_if_updated(repo, snapshot, run) IN r.updated /\ ~r.raised

SamePair(a, b) == a.manufacturer = b.manufacturer /\ a.model = b.model

\* the label the lookup file holds for a resolution: "scanner" and the number
\* on the line of its name
LabelInFile(sf, r) ==
    \E i \in 1..Len(sf.lines) :
        LET kv == Split(Remove(sf.lines[i], NL), TAB)
        IN kv[1] = r.manufacturer \o r.model /\ <<"scanner">> \o kv[2] = r.label

\* C3: resolving a pair that was resolved before, in this run or an earlier one
\* over the same lookup file, returns the label of its first resolution, appends
\* nothing to the lookup file, and every resolved pair keeps its label in the file.
C3_ResolveIsStable ==
    [][/\ \A i \in 1..Len(resolved') : LabelInFile(scanner_file', resolved'[i])
       /\ Len(resolved') = Len(resolved) + 1 =>
             LET r == resolved'[Len(resolved')]
             IN (\E i \in 1..Len(resolved) : SamePair(resolved[i], r)) =>
                   /\ \A i \in 1..Len(resolved) :
                         SamePair(resolved[i], r) => resolved[i].label = r.label
                   /\ scanner_file' = scanner_file]_vars

\* C3 witness: in a later run a pair resolved in an earlier run was resolved again
C3_Witness ==
    /\ run >= 2
    /\ \E i, j \in 1..Len(resolved) : i < j /\ SamePair(resolved[i], resolved[j])
    /\ Len(scanner_file.lines) < Len(resolved)

\* the number of distinct pairs resolved up to and including the first
\* resolution of the pair of entry i
DistinctRank(i) ==
    LET first == CHOOSE k \in 1..i : SamePair(resolved[k], resolved[i])
                                     /\ \A m \in 1..(k - 1) : ~SamePair(resolved[m], resolved[i])
    IN Cardinality({<<resolved[k].manufacturer, resolved[k].model>> : k \in 1..first})

\* C4: over a lookup file that started empty, the Nth distinct pair has the
\* label "scannerN", and pairs that differ in manufacturer or model never share
\* a label.
C4_NthPairScannerN ==
    /\ \A i \in 1..Len(resolved) : resolved[i].label = <<"scanner">> \o PyStrInt(DistinctRank(i))
    /\ \A i, j \in 1..Len(resolved) :
          ~SamePair(resolved[i], resolved[j]) => resolved[i].label # resolved[j].label

NoDuplicates(s) == \A i, j \in 1..Len(s) : i # j => s[i] # s[j]

\* C5: the tag file never holds two identical lines.
C5_NoDuplicateTagLines == NoDuplicates(tag_file)

\* C6: a session-level tag line that differs from every line emitted so far in
\* the run is written to the tag file.
C6_DedupByRenderedLine ==
    [][(AtExperiment /\ Qualifies(repo[si][ei])) =>
          \A k \in 1..Len(tag_list) :
              LET session == repo[si][ei]
                  info_tag == session.attrs[k]
              IN (info_tag # Missing /\ Truthy(info_tag)) =>
                    \E i \in 0..Len(tag_list) :
                        InSeq(MetadataLine(ToolPrefix(session), tag_list[k], info_tag, i),
                              tag_file')]_vars

IsPrefix(s, t) == Len(s) <= Len(t) /\ SubSeq(t, 1, Len(s)) = s

RECURSIVE FirstSeen(_, _)
\* the keys of s in the order of their first occurrence
FirstSeen(s, acc) ==
    IF s = <<>> THEN acc
    ELSE FirstSeen(Tail(s), IF InSeq(Head(s), acc) THEN acc ELSE Append(acc, Head(s)))

\* C7: throughout the traversal the header list has no duplicate, only grows at
\* its end, and lists the keys met in the order they were first met.
C7_HeaderListFirstSeen ==
    [][/\ NoDuplicates(data_header_list')
       /\ data_header_list' = FirstSeen(seen', <<>>)
       /\ pc = "traverse" => IsPrefix(data_header_list, data_header_list')]_vars

\* C7 witness: in the second subject a key of an earlier subject was met again
C7_Witness ==
    /\ pc = "traverse" /\ si = 2
    /\ Len(data_header_list) >= 3
    /\ \E i, j \in 1..Len(seen) : i < j /\ seen[i] = seen[j] /\ seen[i] # K_subject

\* the fields of a written line: the text before the newline, split on tabs
FieldsOf(text) == Split(SubSeq(text, 1, Len(text) - 1), TAB)

\* C8: each data line has len(HeaderList) tab-separated fields in header order;
\* a field is the row's value for its header, or empty when the row has none.
C8_RowsAligned ==
    pc = "disconnect" =>
        /\ Len(data_file) = Len(data_list) + 1
        /\ \A r \in 1..Len(data_list) :
              LET text == data_file[r + 1]
                  fields == FieldsOf(text)
              IN /\ text[Len(text)] = NL
                 /\ Len(fields) = Len(data_header_list)
                 /\ \A h \in 1..Len(data_header_list) :
                       fields[h] = IF data_header_list[h] \in DOMAIN data_list[r]
                                   THEN data_list[r][data_header_list[h]] ELSE <<>>

\* C8 witness: two rows were written and one lacks a value for some header
C8_Witness ==
    /\ pc = "disconnect"
    /\ Len(data_list) >= 2
    /\ \E r \in 1..Len(data_list) : \E h \in 1..Len(data_header_list) :
          data_header_list[h] \notin DOMAIN data_list[r]

\* the patient-mapping table: identifier -> pseudonym
PatientTable == LoadPatientDict(patient_file, EmptyDict)

\* C9: the subject value of the row of a subject the table maps is the
\* pseudonym, in every run; unmapped subjects keep their identifier.
C9_MappedSubjectPseudonym ==
    (pc = "traverse" /\ K_subject \in DOMAIN data_row_dict) =>
        data_row_dict[K_subject] = IF Subjects[si] \in DOMAIN PatientTable
                                   THEN PatientTable[Subjects[si]] ELSE Subjects[si]

\* C10: over an unchanged repository every run that writes output writes the
\* clinical table and the columns file the first run wrote.
C10_SameOutputEveryRun ==
    (pc = "disconnect" /\ changes = 0 /\ first_output.written) =>
        /\ data_file = first_output.clinical
        /\ concept_file = first_output.columns

\* C11: with no snapshot file the run is a first run: it does not leave through
\* the no-new-data exit, check_if_updated writes a snapshot holding the current
\* label-to-timestamp mapping of the qualifying sessions, and the run goes on to
\* create the output directory.
C11_FirstRunProceeds ==
    [][(pc = "check_if_updated" /\ ~snapshot.exists) =>
          /\ exit_status' # <<9>>
          /\ snapshot'.exists
          /\ snapshot'.session_list = SessionList(repo)
          /\ pc' = "create_dir"]_vars

\* C11 witness: the first run is past the gate and its snapshot holds a session
C11_Witness ==
    /\ run = 1 /\ pc = "create_dir"
    /\ snapshot.exists /\ DOMAIN snapshot.session_list # {}

\* what check_if_updated dumps when it rewrites the snapshot in this run
CurrentSnapshot == [exists |-> TRUE, last_updated |-> run, session_list |-> SessionList(repo)]

\* C12: check_if_updated rewrites the snapshot with the current mapping if and
\* only if the file did not exist or a changed timestamp was found; an existing
\* snapshot from which nothing differs is left as it is, last_updated included.
C12_RewriteIffNewOrChanged ==
    [][pc = "check_if_updated" =>
          /\ (snapshot' = CurrentSnapshot) <=> (~snapshot.exists \/ Differs(snapshot, repo))
          /\ (snapshot.exists /\ ~Differs(snapshot, repo)) => snapshot' = snapshot]_vars

\* C13: in a run that is past the update gate and producing output, the
\* persisted snapshot was overwritten in this run: it holds the run's session
\* timestamps and the run's timestamp.
C13_SnapshotOverwrittenWhenProceeding ==
    pc \in {"create_dir", "write_headers", "get_patient_mapping", "obtain_data",
            "traverse", "write_data", "disconnect"} => snapshot = CurrentSnapshot

\* C14: on every exit path after write_headers, normal end or fatal error, the
\* handles of the tags file, the clinical file and the columns file have all
\* been closed when the process ends.
C14_HandlesClosedAtExit == exit_status # NotExited => open_files = {}

\* the project holds no qualifying session
NoQualifying(r) == \A s \in SubjectIds : \A e \in 1..Len(r[s]) : ~Qualifies(r[s][e])

\* C15: a run over a project without any qualifying session never invokes
\* write_data, writes no data row, and ends with a status that is neither 0
\* nor the no-new-data status 9.
C15_NoQualifyingIsFatal ==
    [][(pc # "idle" /\ NoQualifying(repo)) =>
          /\ pc' \notin {"write_data", "disconnect"}
          /\ data_file' = <<>>
          /\ pc' = "idle" => (exit_status' # NotExited /\ exit_status' \notin {<<0>>, <<9>>})]_vars

\* C15 witness: the traversal of a project without qualifying session ended
\* and the run is over with status 1
C15_Witness ==
    /\ pc = "idle" /\ exit_status = <<1>>
    /\ NoQualifying(repo)
    /\ out_dir /\ si > Len(Subjects) /\ data_list = <<>>

\* the subjects, in traversal order, that hold a qualifying session
SubjectsWithQualifying(r) ==
    SelectSeq([i \in SubjectIds |-> i],
              LAMBDA i : \E e \in 1..Len(r[i]) : Qualifies(r[i][e]))

\* C16: when obtain_data has returned, data_list holds one row per subject with
\* a qualifying session, in traversal order, and none for the other subjects.
C16_OneRowPerQualifyingSubject ==
    pc = "write_data" =>
        LET with == SubjectsWithQualifying(repo)
        IN /\ Len(data_list) = Len(with)
           /\ \A k \in 1..Len(with) :
                 /\ K_subject \in DOMAIN data_list[k]
                 /\ data_list[k][K_subject] = SubjectValue(Subjects[with[k]], patient_map)

\* C16 witness: the first subject has sessions but none qualifies, the second
\* has one, and one row came back
C16_Witness ==
    /\ pc = "write_data"
    /\ Len(repo[1]) > 0 /\ SubjectsWithQualifying(repo) = <<2>>
    /\ Len(data_list) = 1

\* the prefix a session is to carry, by the presence of its tool and version
ExpectedPrefix(session) ==
    LET tool == session.analysis_tool
        version == session.analysis_tool_version
        hasTool == tool \notin {None, <<>>}
        hasVersion == version \notin {None, <<>>}
    IN CASE hasTool /\ hasVersion -> tool \o <<" ">> \o version
         [] hasTool /\ ~hasVersion -> tool
         [] OTHER -> <<"Generic Tool">>

\* the first backslash-separated component of the first tab-separated field
FirstComponent(text) == Split(Split(text, TAB)[1], "\\")[1]

\* C17: every tag line written while a session is retrieved, session-level,
\* scanner-level or concept-level, and every concept key built for it, has as
\* first component "<tool> <version>" when the session has both, the tool when
\* it has only the tool, and "Generic Tool" otherwise.
C17_ToolPrefixFirstComponent ==
    [][(InTraversal /\ ei <= Len(repo[si]) /\ Qualifies(repo[si][ei])) =>
          LET prefix == ExpectedPrefix(repo[si][ei])
          IN /\ \A k \in (Len(tag_file) + 1)..Len(tag_file') :
                   FirstComponent(tag_file'[k]) = prefix
             /\ bi > 0 => FirstComponent(seen'[Len(seen')]) = prefix
             /\ (bi = 0 /\ pc' = "traverse") => cur'.begin_concept_key = prefix]_vars

\* C17 witness: the header list of a finished traversal holds keys of a session
\* with tool and version, of one with the tool only and of one with a version only
C17_Witness ==
    /\ pc = "write_data"
    /\ \E h \in 1..Len(data_header_list) :
          Split(data_header_list[h], "\\")[1] = <<"ToolX", " ", "1.0">>
    /\ \E h \in 1..Len(data_header_list) : Split(data_header_list[h], "\\")[1] = <<"ToolX">>
    /\ \E h \in 1..Len(data_header_list) :
          Split(data_header_list[h], "\\")[1] = <<"Generic Tool">>
    /\ \E s \in SubjectIds : \E e \in 1..Len(repo[s]) :
          /\ Qualifies(repo[s][e])
          /\ repo[s][e].analysis_tool = None /\ repo[s][e].analysis_tool_version # None

\* C18: a qualifying session's laterality and timepoint are the base session's
\* explicit attributes when present and otherwise tokens 3 and 4 of the label
\* split on underscore; with both attributes present the session is retrieved
\* from them whatever the number of tokens of the label.
C18_ExplicitBeforePositional ==
    [][(AtExperiment /\ Qualifies(repo[si][ei]) /\ Len(repo[si][ei].base_sessions) > 0) =>
          LET session == repo[si][ei]
              base == session.base_sessions[1]
              label_list == Split(session.label, "_")
              stated == base.laterality # None /\ base.timepoint # None
          IN (stated \/ Len(label_list) >= 5) =>
                /\ pc' = "traverse"
                /\ MetaGet(cur'.metadata, K_laterality) =
                      (IF base.laterality # None THEN base.laterality ELSE label_list[4])
                /\ MetaGet(cur'.metadata, K_timepoint) =
                      (IF base.timepoint # None THEN base.timepoint ELSE label_list[5])]_vars

\* the position of the last backslash of a concept key
LastBackslash(key) == CHOOSE i \in 1..Len(key) :
                          key[i] = "\\" /\ \A j \in (i + 1)..Len(key) : key[j] # "\\"

\* C19: after write_data the columns file holds, below its heading, one line
\* for each entry of the header list, in header-list order: the line of the
\* entry at 0-based position i has column number i+1, as category code the
\* key up to its last backslash and as data label what follows it; the subject
\* entry has a single line, with data label SUBJ_ID.
C19_ColumnLinePerHeader ==
    pc = "disconnect" =>
        /\ Len(concept_file) = Len(data_header_list) + 1
        /\ \A h \in 1..Len(data_header_list) :
              LET key == data_header_list[h]
                  fields == FieldsOf(concept_file[h + 1])
              IN /\ Len(fields) = 4
                 /\ fields[1] = DataFileName
                 /\ fields[3] = <<ToString(h)>>
                 /\ IF key = K_subject
                    THEN fields[2] = K_subject /\ fields[4] = <<"SUBJ_ID">>
                    ELSE /\ fields[2] = SubSeq(key, 1, LastBackslash(key) - 1)
                         /\ fields[4] = SubSeq(key, LastBackslash(key) + 1, Len(key))
        /\ Cardinality({k \in 2..Len(concept_file) :
                           FieldsOf(concept_file[k])[4] = <<"SUBJ_ID">>}) = 1

\* C19 witness: two rows were written, each lacking a column the other has
C19_Witness ==
    /\ pc = "disconnect"
    /\ Len(data_list) >= 2 /\ Len(concept_file) >= 5
    /\ \E h \in 1..Len(data_header_list) :
          /\ data_header_list[h] \notin DOMAIN data_list[1]
          /\ data_header_list[h] \in DOMAIN data_list[2]
    /\ \E h \in 1..Len(data_header_list) :
          /\ data_header_list[h] \in DOMAIN data_list[1]
          /\ data_header_list[h] \notin DOMAIN data_list[2]

\* C20: with n configured tags, the session-level tag line a session writes for
\* the tag at 1-based position k of the list carries weight n-k+1.
C20_WeightByListPosition ==
    [][(AtExperiment /\ Qualifies(repo[si][ei])) =>
          \A j \in (Len(tag_file) + 1)..Len(tag_file') :
             LET fields == FieldsOf(tag_file'[j])
             IN fields[1] = ExpectedPrefix(repo[si][ei]) =>
                   \A k \in 1..Len(tag_list) :
                      fields[2] = Replace(tag_list[k], "_", " ") =>
                         fields[4] = <<ToString(Len(tag_list) - k + 1)>>]_vars

\* the positions of the tag file whose line annotates key with title
OntologyLines(file, key, title) ==
    {j \in 1..Len(file) : IsPrefix(key \o <<TAB>> \o title \o <<TAB>>, file[j])}

\* the annotation line of a key: title, value and weight 1
OntologyLine(key, title, value) ==
    key \o <<TAB>> \o title \o <<TAB>> \o value \o <<TAB, "1", NL>>

\* C21: within a run the tag file holds, for every concept key of the header
\* list, exactly one "Ontology name" line and exactly one "Ontology IRI" line;
\* they are written in the step that adds the key to the header list, from the
\* biomarker of that step, and a step that meets a key already listed writes
\* no ontology line.
C21_OntologyOncePerKey ==
    [][(InTraversal /\ bi > 0) =>
          LET b == FlattenCategories(repo[si][ei].biomarker_categories)[bi]
              key == seen'[Len(seen')]
              added == (Len(tag_file) + 1)..Len(tag_file')
              nameLines == OntologyLines(tag_file', key, <<"Ontology name">>)
              iriLines == OntologyLines(tag_file', key, <<"Ontology IRI">>)
          IN /\ Cardinality(nameLines) = 1 /\ Cardinality(iriLines) = 1
             /\ IF InSeq(key, data_header_list)
                THEN (nameLines \cup iriLines) \cap added = {}
                ELSE /\ InSeq(key, data_header_list')
                     /\ nameLines \subseteq added /\ iriLines \subseteq added
                     /\ \A j \in nameLines :
                           tag_file'[j] = OntologyLine(key, <<"Ontology name">>,
                                                       b.biomarker.ontology_name)
                     /\ \A j \in iriLines :
                           tag_file'[j] = OntologyLine(key, <<"Ontology IRI">>,
                                                       b.biomarker.ontology_iri)
             /\ \A h \in 1..Len(data_header_list') :
                   data_header_list'[h] # K_subject =>
                      /\ Cardinality(OntologyLines(tag_file', data_header_list'[h],
                                                   <<"Ontology name">>)) = 1
                      /\ Cardinality(OntologyLines(tag_file', data_header_list'[h],
                                                   <<"Ontology IRI">>)) = 1]_vars

\* C21 witness: a key of the first subject was met again in the second, with a
\* biomarker of another ontology name, and the tag file has the first one's
C21_Witness ==
    /\ pc = "write_data"
    /\ \E i, j \in 1..Len(seen) : i < j /\ seen[i] = seen[j] /\ seen[i] # K_subject
    /\ \E j \in 1..Len(tag_file) : \E h \in 1..Len(data_header_list) :
          tag_file[j] = OntologyLine(data_header_list[h], <<"Ontology name">>, <<"vol">>)
    /\ \E s \in SubjectIds : \E e \in 1..Len(repo[s]) :
          Qualifies(repo[s][e]) /\ repo[s][e].biomarker_categories = << VolumeAgain >>

\* C23: a qualifying session without base session is retrieved all the same:
\* the step does not abort, laterality and timepoint are tokens 3 and 4 of its
\* label, and each of its biomarker values enters the subject's row under a
\* key that carries those tokens.
C23_NoBaseSessionStillProcessed ==
    [][(InTraversal /\ ei <= Len(repo[si]) /\ Qualifies(repo[si][ei])
          /\ repo[si][ei].base_sessions = <<>>
          /\ Len(Split(repo[si][ei].label, "_")) >= 5) =>
          LET session == repo[si][ei]
              label_list == Split(session.label, "_")
          IN IF bi = 0
             THEN /\ pc' = "traverse"
                  /\ MetaGet(cur'.metadata, K_laterality) = label_list[4]
                  /\ MetaGet(cur'.metadata, K_timepoint) = label_list[5]
             ELSE LET b == FlattenCategories(session.biomarker_categories)[bi]
                      key == seen'[Len(seen')]
                      parts == Split(key, "\\")
                  IN /\ key \in DOMAIN data_row_dict'
                     /\ data_row_dict'[key] = b.biomarker.value
                     /\ parts[4] = label_list[4] /\ parts[5] = label_list[5]]_vars

\* every qualifying session of the project can be retrieved, and there is one
Processable(r) ==
    /\ ~NoQualifying(r)
    /\ \A s \in SubjectIds : \A e \in 1..Len(r[s]) :
          Qualifies(r[s][e]) =>
             Len(r[s][e].base_sessions) > 0 /\ Len(Split(r[s][e].label, "_")) >= 5

\* between two runs, the one upstream change has left a qualifying session the
\* snapshot does not agree with, and two more runs are to come
ChangePending ==
    /\ pc = "idle" /\ changes = 1 /\ run <= MaxRuns - 2
    /\ snapshot.exists /\ Differs(snapshot, repo)
    /\ Processable(repo)

\* a run is past the update gate
PastGate == pc = "create_dir"

\* a run that has written its output has retrieved every qualifying session
OutputOfAllSessions ==
    pc = "disconnect" =>
        Cardinality({i \in 1..Len(seen) : seen[i] = K_subject})
           = Cardinality(DOMAIN SessionList(repo))

\* C22: after the one upstream change (a qualifying session's timestamp
\* changes, or a new qualifying session appears), with the project fixed from
\* then on, some later run gets past the update gate; and a run that got past
\* it and wrote the output files wrote the data of every qualifying session.
C22_ChangeEventuallyExported ==
    /\ ChangePending ~> (PastGate \/ changes > 1)
    /\ []OutputOfAllSessions

====
